---- MODULE Spec2Model ----
(***************************************************************************)
(* A model of two transformers of feature_engine:                          *)
(*   - StringSimilarityEncoder    (encoding/similarity_encoder.py)         *)
(*   - IncreasingWidthDiscretiser (discretisation/increasing_width.py)     *)
(* One instance is constructed, then fit and transform are called on it    *)
(* with data frames drawn from bounded sets.                               *)
(*                                                                         *)
(* Representation.                                                         *)
(*   - A Python str is a sequence of one-character strings, so that        *)
(*     f"{feature}_{category}" and the character counts of quick_ratio     *)
(*     are computed and not assumed.                                       *)
(*   - A missing cell (NaN / None) is the marker NaN, which is no str.     *)
(*   - A number is an exact rational <<n, d>> in lowest terms, d > 0;      *)
(*     -inf and +inf are <<-1, 0>> and <<1, 0>>; a NaN score is <<0, 0>>.  *)
(*     Floating-point rounding is not modelled.                            *)
(*   - A data frame is [cols, dtype, data]: the ordered column names, and  *)
(*     per column its dtype and its cells (all columns of one length).     *)
(***************************************************************************)
EXTENDS Integers, Sequences, FiniteSets, TLC

\* ---------------------------------------------------------------- bounds
\* most rows of a frame with a single categorical column; a frame with more
\* columns has at most MaxCells cells
MaxCells == 3
\* largest integer top_categories drawn
MaxTop == 2
\* largest bins drawn
MaxBins == 3
\* increments of the discretiser's fit data are p/q, p in 0..MaxNum, q in 1..MaxDen
MaxNum == 2
MaxDen == 2

\* ---------------------------------------------------------------- strings
NaN == <<"NaN">>
EmptyStr == <<>>
StrA == <<"a">>
StrNan == <<"n", "a", "n">>
StrAB == <<"a", "b">>
StrBA == <<"b", "a">>
ColX == <<"x">>
ColY == <<"y">>
ColXA == <<"x", "_", "a">>
ColVar == <<"v", "a", "r">>

isna(c) == c = NaN

RECURSIVE CountOf(_, _)
\* occurrences of v in the sequence s
CountOf(s, v) ==
    IF s = <<>> THEN 0
    ELSE (IF Head(s) = v THEN 1 ELSE 0) + CountOf(Tail(s), v)

InSeq(s, v) == \E i \in 1..Len(s) : s[i] = v

Range(s) == {s[i] : i \in 1..Len(s)}

NoDuplicates(s) == \A i, j \in 1..Len(s) : i # j => s[i] # s[j]

RECURSIVE SumSeq(_)
SumSeq(s) == IF s = <<>> THEN 0 ELSE Head(s) + SumSeq(Tail(s))

\* ---------------------------------------------------------------- numbers
RECURSIVE GCD(_, _)
GCD(a, b) == IF b = 0 THEN a ELSE GCD(b, a % b)

Abs(n) == IF n < 0 THEN -n ELSE n

Rat(n, d) ==
    LET g == GCD(Abs(n), Abs(d))
        s == IF d < 0 THEN -1 ELSE 1
    IN  <<s * (n \div g), s * (d \div g)>>

NegInf == <<-1, 0>>
PosInf == <<1, 0>>
ScoreNaN == <<0, 0>>
Zero == <<0, 1>>
One == <<1, 1>>

RAdd(a, b) == Rat(a[1] * b[2] + b[1] * a[2], a[2] * b[2])
RSub(a, b) == Rat(a[1] * b[2] - b[1] * a[2], a[2] * b[2])
RMul(a, b) == Rat(a[1] * b[1], a[2] * b[2])

\* a < b on finite numbers and the two infinities
RLess(a, b) ==
    IF a = b THEN FALSE
    ELSE IF a = NegInf \/ b = PosInf THEN TRUE
    ELSE IF a = PosInf \/ b = NegInf THEN FALSE
    ELSE a[1] * b[2] < b[1] * a[2]

RLeq(a, b) == a = b \/ RLess(a, b)

RECURSIVE RPow(_, _)
\* r ** i for an integer i >= 0
RPow(r, i) == IF i = 0 THEN One ELSE RMul(r, RPow(r, i - 1))

\* ---------------------------------------------------------------- frames
NoFrame == [cols |-> <<>>, dtype |-> <<>>, data |-> <<>>]

NRows(X) == Len(X.data[X.cols[1]])

\* the cells drawn for the categorical columns x and y
XValues == {NaN, EmptyStr, StrA, StrNan}
YValues == {NaN, StrAB, StrBA}

\* one categorical column x
FramesX ==
    { [cols |-> <<ColX>>,
       dtype |-> [c \in {ColX} |-> "object"],
       data |-> [c \in {ColX} |-> xs]] :
      xs \in UNION {[1..n -> XValues] : n \in 1..MaxCells} }

\* a categorical column x and a numerical column named x_a
FramesXNum ==
    { [cols |-> <<ColX, ColXA>>,
       dtype |-> [c \in {ColX, ColXA} |-> IF c = ColX THEN "object" ELSE "number"],
       data |-> [c \in {ColX, ColXA} |->
                    IF c = ColX THEN xs ELSE [i \in 1..Len(xs) |-> Zero]]] :
      xs \in UNION {[1..n -> XValues] : n \in 1..(MaxCells \div 2)} }

\* two categorical columns x and y
FramesXY ==
    UNION { { [cols |-> <<ColX, ColY>>,
               dtype |-> [c \in {ColX, ColY} |-> "object"],
               data |-> [c \in {ColX, ColY} |-> IF c = ColX THEN xs ELSE ys]] :
              xs \in [1..n -> XValues], ys \in [1..n -> YValues] } :
            n \in 1..(MaxCells \div 2) }

EncFrames == FramesX \cup FramesXNum \cup FramesXY

\* ---------------------------------------------------------------- constructor arguments
\* a Python value given for top_categories or bins: its type and, for an int,
\* its value; for a float, its value in tenths; for a str, its length
PyNone == [ty |-> "NoneType", v |-> 0]
PyInt(n) == [ty |-> "int", v |-> n]
PyFloat(tenths) == [ty |-> "float", v |-> tenths]
PyStr(len) == [ty |-> "str", v |-> len]

\* bool(a)
Truthy(a) == a.ty # "NoneType" /\ a.v # 0

\* isinstance(a, int)
IsInt(a) == a.ty = "int"

TopCategoriesArgs ==
    {PyNone, PyFloat(0), PyFloat(5), PyStr(0)} \cup {PyInt(n) : n \in (-1)..MaxTop}

HandleMissingArgs == {"error", "impute", "ignore", "propagate"}

BinsArgs == {PyStr(5), PyFloat(25)} \cup {PyInt(n) : n \in (-1)..MaxBins}

\* ---------------------------------------------------------------- state
VARIABLES
    kind,               \* "none", "StringSimilarityEncoder" or "IncreasingWidthDiscretiser"
    top_categories,     \* self.top_categories
    handle_missing,     \* self.handle_missing
    bins,               \* self.bins
    fitted,             \* the names of the learned attributes (ending in "_") the instance has
    variables_,         \* self.variables_
    feature_names_in_,  \* self.feature_names_in_
    encoder_dict_,      \* self.encoder_dict_
    binner_dict_,       \* self.binner_dict_
    call,               \* the last call: [op, X, raised, out]; X is the frame the caller holds
    fit_completed       \* history: some fit call on the instance has returned without raising

params == <<kind, top_categories, handle_missing, bins>>
learned == <<fitted, variables_, feature_names_in_, encoder_dict_, binner_dict_>>
vars == <<kind, top_categories, handle_missing, bins, fitted, variables_,
          feature_names_in_, encoder_dict_, binner_dict_, call, fit_completed>>

EmptyDict == [k \in {} |-> <<>>]

NoCall == [op |-> "none", X |-> NoFrame, raised |-> "", out |-> NoFrame]

Init ==
    /\ kind = "none"
    /\ top_categories = PyNone
    /\ handle_missing = "impute"
    /\ bins = PyInt(10)
    /\ fitted = {}
    /\ variables_ = <<>>
    /\ feature_names_in_ = <<>>
    /\ encoder_dict_ = EmptyDict
    /\ binner_dict_ = EmptyDict
    /\ call = NoCall
    /\ fit_completed = FALSE

\* the caller holds one frame at a time: a call is made on the frame of the
\* previous call (fit(X) then transform(X), transform(X) again) or, once that
\* frame is released, on a new one
Holds(X) == call.X = NoFrame \/ call.X = X

\* ---------------------------------------------------------------- pandas helpers
\* Series.fillna("")
fillna(col) == [i \in 1..Len(col) |-> IF isna(col[i]) THEN EmptyStr ELSE col[i]]

\* Series.dropna()
dropna(col) == SelectSeq(col, LAMBDA c : ~isna(c))

\* Series.unique(): the distinct cells in the order they are first met
unique(col) ==
    LET F[i \in 0..Len(col)] ==
            IF i = 0 THEN <<>>
            ELSE IF InSeq(F[i - 1], col[i]) THEN F[i - 1]
            ELSE Append(F[i - 1], col[i])
    IN  F[Len(col)]

RECURSIVE InsertByCountUnstable(_, _, _)
\* InsertByCount with equal counts in last-met order
InsertByCountUnstable(ranked, v, col) ==
    IF ranked = <<>> THEN <<v>>
    ELSE IF CountOf(col, Head(ranked)) > CountOf(col, v)
         THEN <<Head(ranked)>> \o InsertByCountUnstable(Tail(ranked), v, col)
         ELSE <<v>> \o ranked

RECURSIVE InsertByCount(_, _, _)
\* v put into ranked (descending counts in col) behind every entry whose count
\* is not smaller: a stable descending sort
InsertByCount(ranked, v, col) ==
    IF ranked = <<>> THEN <<v>>
    ELSE IF CountOf(col, Head(ranked)) >= CountOf(col, v)
         THEN <<Head(ranked)>> \o InsertByCount(Tail(ranked), v, col)
         ELSE <<v>> \o ranked

\* Series.value_counts().index.tolist(): the distinct non-missing cells by
\* descending count, equal counts in first-met order
value_counts(col) ==
    LET u == unique(dropna(col))
        F[i \in 0..Len(u)] ==
            IF i = 0 THEN <<>> ELSE InsertByCount(F[i - 1], u[i], col)
    IN  F[Len(u)]

Min2(a, b) == IF a < b THEN a ELSE b
Max2(a, b) == IF a > b THEN a ELSE b

\* .head(n) for n None or an int: s[:n]
head(s, n) ==
    IF n.ty = "NoneType" THEN s
    ELSE IF n.v >= 0 THEN SubSeq(s, 1, Min2(n.v, Len(s)))
    ELSE SubSeq(s, 1, Max2(Len(s) + n.v, 0))

\* _check_or_select_variables with variables=None: the categorical columns
SelectVariables(X) == SelectSeq(X.cols, LAMBDA c : X.dtype[c] = "object")

\* _check_contains_na(X, variables) raises
ContainsNa(X, variables) ==
    \E i \in 1..Len(variables) : \E r \in 1..NRows(X) : isna(X.data[variables[i]][r])

\* ---------------------------------------------------------------- StringSimilarityEncoder
\* __init__ raises ValueError
EncoderInitRaises(tc, hm) ==
    \/ Truthy(tc) /\ ~IsInt(tc)
    \/ hm \notin {"error", "impute", "ignore"}

EncoderInit(tc, hm) ==
    /\ kind = "none"
    /\ call.op = "none"
    /\ IF EncoderInitRaises(tc, hm)
       THEN /\ call' = [NoCall EXCEPT !.op = "__init__", !.raised = "ValueError"]
            /\ UNCHANGED <<params, learned, fit_completed>>
       ELSE /\ kind' = "StringSimilarityEncoder"
            /\ top_categories' = tc
            /\ handle_missing' = hm
            /\ call' = [NoCall EXCEPT !.op = "__init__"]
            /\ UNCHANGED <<bins, learned, fit_completed>>

\* Learn with the missing cells left out under every policy
LearnDropsMissing(col, tc, hm) == head(value_counts(col), tc)

\* the vocabulary fit learns from one column
Learn(col, tc, hm) ==
    IF hm = "impute" THEN head(value_counts(fillna(col)), tc)
    ELSE head(value_counts(col), tc)

\* the exception fit raises on X, "" when it raises none
EncoderFitRaises(X, tc, hm) ==
    IF hm = "error" /\ ContainsNa(X, SelectVariables(X)) THEN "ValueError"
    ELSE IF tc.ty \notin {"NoneType", "int"} THEN "TypeError"
    ELSE ""

\* EncoderDictAfterFit without the reset: the entries of an earlier fit are kept
EncoderDictMerged(old, X, tc, hm) ==
    IF EncoderFitRaises(X, tc, hm) # "" THEN EmptyDict
    ELSE [v \in DOMAIN old \cup Range(SelectVariables(X)) |->
             IF InSeq(SelectVariables(X), v) THEN Learn(X.data[v], tc, hm) ELSE old[v]]

\* self.encoder_dict_ when fit returns or raises; old is its value before the call
EncoderDictAfterFit(old, X, tc, hm) ==
    IF EncoderFitRaises(X, tc, hm) # "" THEN EmptyDict
    ELSE [v \in Range(SelectVariables(X)) |-> Learn(X.data[v], tc, hm)]

EncoderFit(X) ==
    /\ kind = "StringSimilarityEncoder"
    /\ Holds(X)
    /\ variables_' = SelectVariables(X)
    /\ feature_names_in_' = X.cols
    /\ fitted' = fitted \cup {"variables_", "feature_names_in_", "n_features_in_",
                              "encoder_dict_"}
    /\ encoder_dict_' = EncoderDictAfterFit(encoder_dict_, X, top_categories, handle_missing)
    /\ call' = [op |-> "fit", X |-> X,
                raised |-> EncoderFitRaises(X, top_categories, handle_missing),
                out |-> NoFrame]
    /\ fit_completed' = (fit_completed \/ EncoderFitRaises(X, top_categories, handle_missing) = "")
    /\ UNCHANGED <<params, binner_dict_>>

\* SequenceMatcher(None, a, b).quick_ratio(): every character of a that b
\* still has an unused occurrence of is a match
quick_ratio(a, b) ==
    LET hit(i) == CountOf(SubSeq(a, 1, i), a[i]) <= CountOf(b, a[i])
        matches == Cardinality({i \in 1..Len(a) : hit(i)})
        length == Len(a) + Len(b)
    IN  IF length # 0 THEN Rat(2 * matches, length) ELSE One

_gpm_fast(x1, x2) == quick_ratio(x1, x2)

\* f"{feature}_nan" for the empty category, else f"{feature}_{category}"
FeatureName(feature, category) ==
    IF category = EmptyStr THEN feature \o <<"_">> \o StrNan
    ELSE feature \o <<"_">> \o category

RECURSIVE ConcatAll(_)
ConcatAll(ss) == IF ss = <<>> THEN <<>> ELSE Head(ss) \o ConcatAll(Tail(ss))

_get_new_features_name(variables, dict) ==
    ConcatAll([i \in 1..Len(variables) |->
        [j \in 1..Len(dict[variables[i]]) |->
            FeatureName(variables[i], dict[variables[i]][j])]])

\* feature_names + the new names, without the encoded variables
_add_new_feature_names(feature_names, variables, dict) ==
    SelectSeq(feature_names \o _get_new_features_name(variables, dict),
              LAMBDA f : ~InSeq(variables, f))

\* get_feature_names_out(input_features=None): the names of the fit input
\* handed to _add_new_feature_names
get_feature_names_out(names_in, variables, dict) ==
    _add_new_feature_names(names_in, variables, dict)

\* FilledColumn with the missing cells filled under every policy
FilledColumnAlways(X, var, hm) == fillna(X.data[var])

\* the column of the transform input as the loop body sees it
FilledColumn(X, var, hm) == IF hm = "impute" THEN fillna(X.data[var]) ELSE X.data[var]

\* encoded: one row of scores per input row
Encoded(col, vocab, hm) ==
    [r \in 1..Len(col) |->
        IF isna(col[r]) THEN [j \in 1..Len(vocab) |-> ScoreNaN]
        ELSE [j \in 1..Len(vocab) |-> _gpm_fast(col[r], vocab[j])]]

\* np.hstack(new_values), column by column
NewValues(X, variables, dict, hm) ==
    ConcatAll([i \in 1..Len(variables) |->
        LET enc == Encoded(FilledColumn(X, variables[i], hm), dict[variables[i]], hm)
        IN  [j \in 1..Len(dict[variables[i]]) |-> [r \in 1..NRows(X) |-> enc[r][j]]]])

\* X[name] = col: an existing column is overwritten in place, a new one appended
SetColumn(X, name, col) ==
    [cols |-> IF InSeq(X.cols, name) THEN X.cols ELSE Append(X.cols, name),
     dtype |-> [c \in Range(X.cols) \cup {name} |-> IF c = name THEN "float" ELSE X.dtype[c]],
     data |-> [c \in Range(X.cols) \cup {name} |-> IF c = name THEN col ELSE X.data[c]]]

\* X.loc[:, names] = values
AssignColumns(X, names, values) ==
    LET F[i \in 0..Len(names)] ==
            IF i = 0 THEN X ELSE SetColumn(F[i - 1], names[i], values[i])
    IN  F[Len(names)]

\* X.drop(variables, axis=1)
drop(X, variables) ==
    LET keep == SelectSeq(X.cols, LAMBDA c : ~InSeq(variables, c))
    IN  [cols |-> keep,
         dtype |-> [c \in Range(keep) |-> X.dtype[c]],
         data |-> [c \in Range(keep) |-> X.data[c]]]

\* the exception the loop body raises for var: KeyError when encoder_dict_
\* has no entry, ValueError when np.vectorize is called on an empty vocabulary
VarRaises(X, var, dict, hm) ==
    IF var \notin DOMAIN dict THEN "KeyError"
    ELSE IF dict[var] = <<>> /\ dropna(FilledColumn(X, var, hm)) # <<>> THEN "ValueError"
    ELSE ""

\* EncoderTransformRaises without the check of the transform input for missing cells
EncoderTransformRaisesUnchecked(X, fit, variables, dict, hm) ==
    IF fit = {} THEN "NotFittedError"
    ELSE LET bad == {i \in 1..Len(variables) : VarRaises(X, variables[i], dict, hm) # ""}
         IN  IF bad = {} THEN ""
             ELSE VarRaises(X, variables[CHOOSE i \in bad : \A k \in bad : i <= k], dict, hm)

\* the exception transform raises before the frame is assembled, "" when none
EncoderTransformRaises(X, fit, variables, dict, hm) ==
    IF fit = {} THEN "NotFittedError"
    ELSE IF hm = "error" /\ ContainsNa(X, variables) THEN "ValueError"
    ELSE LET bad == {i \in 1..Len(variables) : VarRaises(X, variables[i], dict, hm) # ""}
         IN  IF bad = {} THEN ""
             ELSE VarRaises(X, variables[CHOOSE i \in bad : \A k \in bad : i <= k], dict, hm)

\* the frame transform returns
EncoderTransformOut(X, variables, dict, hm) ==
    drop(AssignColumns(X, _get_new_features_name(variables, dict),
                       NewValues(X, variables, dict, hm)),
         variables)

\* the outcomes of X.loc[:, names] = values: with no name, or with a name given
\* twice, the assignment raises or goes through, depending on the pandas in use
AssignOutcomes(names) ==
    IF names = <<>> \/ ~NoDuplicates(names) THEN {"", "ValueError"} ELSE {""}

\* encoder_dict_ when transform returns
EncoderDictAfterTransform(dict) == dict

EncoderTransform(X) ==
    /\ kind = "StringSimilarityEncoder"
    /\ Holds(X)
    /\ fitted # {} => X.cols = feature_names_in_
    /\ LET r == EncoderTransformRaises(X, fitted, variables_, encoder_dict_, handle_missing)
       IN  \E raised \in (IF r # "" THEN {r}
                          ELSE AssignOutcomes(_get_new_features_name(variables_,
                                                                     encoder_dict_))) :
             call' = [op |-> "transform", X |-> X, raised |-> raised,
                      out |-> IF raised # "" THEN NoFrame
                              ELSE EncoderTransformOut(X, variables_, encoder_dict_,
                                                       handle_missing)]
    /\ encoder_dict_' = EncoderDictAfterTransform(encoder_dict_)
    /\ UNCHANGED <<params, fitted, variables_, feature_names_in_, binner_dict_, fit_completed>>

\* ---------------------------------------------------------------- IncreasingWidthDiscretiser
\* the increments (max - min) ** (1 / bins) of the fit data drawn: the data
\* are chosen so that this root is an exact rational
Incs == {Rat(p, q) : p \in 0..MaxNum, q \in 1..MaxDen}

\* the minima of the fit data drawn
Los == {Rat(-3, 1), Zero}

NumFrame(cells) ==
    [cols |-> <<ColVar>>,
     dtype |-> [c \in {ColVar} |-> "number"],
     data |-> [c \in {ColVar} |-> cells]]

\* one numerical column var with min lo and max lo + r ** k, in both row
\* orders, and the frames with a missing cell
NumFrames(k) ==
    UNION { { NumFrame(<<lo, RAdd(lo, RPow(r, k))>>),
              NumFrame(<<RAdd(lo, RPow(r, k)), lo>>) } : lo \in Los, r \in Incs }
    \cup { NumFrame(<<lo, NaN>>) : lo \in Los }

\* Series.min(), Series.max()
SeriesMin(col) == CHOOSE m \in Range(col) : \A v \in Range(col) : RLeq(m, v)
SeriesMax(col) == CHOOSE m \in Range(col) : \A v \in Range(col) : RLeq(v, m)

\* np.power(d, 1.0 / k) for k # 0, where it is rational: the r >= 0 with r ** k = d
\* (k < 0 is only met with np.arange(1, k + 1) empty, so the value is not used)
Root(d, k) ==
    IF k < 0 THEN Zero
    ELSE CHOOSE r \in Incs : RPow(r, k) = d

RECURSIVE InsertSorted(_, _)
InsertSorted(sorted, v) ==
    IF sorted = <<>> THEN <<v>>
    ELSE IF RLeq(Head(sorted), v) THEN <<Head(sorted)>> \o InsertSorted(Tail(sorted), v)
    ELSE <<v>> \o sorted

\* np.sort
Sort(s) ==
    LET F[i \in 0..Len(s)] == IF i = 0 THEN <<>> ELSE InsertSorted(F[i - 1], s[i])
    IN  F[Len(s)]

\* Boundaries with the infinities put around the sorted list, not over its ends
BoundariesAppended(lo, hi, k) ==
    LET increment == Root(RSub(hi, lo), k)
        powers == IF k >= 1 THEN [i \in 1..k |-> RAdd(lo, RPow(increment, i))] ELSE <<>>
    IN  <<NegInf>> \o Sort(<<lo>> \o powers) \o <<PosInf>>

\* the boundary list fit stores for a column with minimum lo and maximum hi
Boundaries(lo, hi, k) ==
    LET increment == Root(RSub(hi, lo), k)
        powers == IF k >= 1 THEN [i \in 1..k |-> RAdd(lo, RPow(increment, i))] ELSE <<>>
        sorted == Sort(<<lo>> \o powers)
        first == [sorted EXCEPT ![1] = NegInf]
    IN  [first EXCEPT ![Len(first)] = PosInf]

\* __init__ raises ValueError
DiscretiserInitRaises(b) == ~IsInt(b)

DiscretiserInit(b) ==
    /\ kind = "none"
    /\ call.op = "none"
    /\ IF DiscretiserInitRaises(b)
       THEN /\ call' = [NoCall EXCEPT !.op = "__init__", !.raised = "ValueError"]
            /\ UNCHANGED <<params, learned, fit_completed>>
       ELSE /\ kind' = "IncreasingWidthDiscretiser"
            /\ bins' = b
            /\ call' = [NoCall EXCEPT !.op = "__init__"]
            /\ UNCHANGED <<top_categories, handle_missing, learned, fit_completed>>

\* BaseDiscretiser.fit: the numerical columns are selected and must hold no
\* missing value
BaseFitRaises(X) == ContainsNa(X, SelectSeq(X.cols, LAMBDA c : X.dtype[c] = "number"))

\* the exception fit raises on X, "" when it raises none
DiscretiserFitRaises(X, b) ==
    IF BaseFitRaises(X) THEN "ValueError"
    ELSE IF b.v = 0 THEN "ZeroDivisionError"
    ELSE ""

\* self.binner_dict_ when fit returns or raises; old is its value before the call
BinnerDictAfterFit(old, X, b) ==
    IF BaseFitRaises(X) THEN old
    ELSE IF b.v = 0 THEN EmptyDict
    ELSE [v \in Range(SelectSeq(X.cols, LAMBDA c : X.dtype[c] = "number")) |->
             Boundaries(SeriesMin(X.data[v]), SeriesMax(X.data[v]), b.v)]

\* the frames drawn for an instance with the given bins
DiscFrames(b) == NumFrames(IF b.v >= 1 THEN b.v ELSE 1)

DiscretiserFit(X) ==
    /\ kind = "IncreasingWidthDiscretiser"
    /\ Holds(X)
    /\ IF BaseFitRaises(X)
       THEN UNCHANGED <<fitted, variables_, feature_names_in_>>
       ELSE /\ variables_' = SelectSeq(X.cols, LAMBDA c : X.dtype[c] = "number")
            /\ feature_names_in_' = X.cols
            /\ fitted' = fitted \cup {"variables_", "feature_names_in_", "n_features_in_",
                                      "binner_dict_"}
    /\ binner_dict_' = BinnerDictAfterFit(binner_dict_, X, bins)
    /\ call' = [op |-> "fit", X |-> X, raised |-> DiscretiserFitRaises(X, bins),
                out |-> NoFrame]
    /\ fit_completed' = (fit_completed \/ DiscretiserFitRaises(X, bins) = "")
    /\ UNCHANGED <<params, encoder_dict_>>

\* the 0-based index of the interval (edge[i], edge[i+1]] that holds v, a
\* missing cell when there is none
BinIndex(edges, v) ==
    LET hit == {i \in 1..(Len(edges) - 1) : RLess(edges[i], v) /\ RLeq(v, edges[i + 1])}
    IN  IF hit = {} THEN NaN ELSE <<(CHOOSE i \in hit : \A k \in hit : i <= k) - 1, 1>>

\* BaseDiscretiser.transform
DiscretiserTransformRaises(X, fit, variables, dict) ==
    IF fit = {} THEN "NotFittedError"
    ELSE IF ContainsNa(X, variables) THEN "ValueError"
    ELSE IF \E i \in 1..Len(variables) : variables[i] \notin DOMAIN dict THEN "KeyError"
    ELSE ""

DiscretiserTransformOut(X, variables, dict) ==
    [X EXCEPT !.data = [c \in DOMAIN X.data |->
        IF InSeq(variables, c)
        THEN [r \in 1..NRows(X) |-> BinIndex(dict[c], X.data[c][r])]
        ELSE X.data[c]]]

DiscretiserTransform(X) ==
    /\ kind = "IncreasingWidthDiscretiser"
    /\ Holds(X)
    /\ LET r == DiscretiserTransformRaises(X, fitted, variables_, binner_dict_)
       IN  call' = [op |-> "transform", X |-> X, raised |-> r,
                    out |-> IF r # "" THEN NoFrame
                            ELSE DiscretiserTransformOut(X, variables_, binner_dict_)]
    /\ UNCHANGED <<params, learned, fit_completed>>

\* the caller lets go of the frame and of the result of the last call
Release ==
    /\ call.op \notin {"none"}
    /\ call' = NoCall
    /\ UNCHANGED <<params, learned, fit_completed>>

EncoderConstruct == \E tc \in TopCategoriesArgs, hm \in HandleMissingArgs : EncoderInit(tc, hm)
EncoderFitCall == kind = "StringSimilarityEncoder" /\ \E X \in EncFrames : EncoderFit(X)
EncoderTransformCall ==
    kind = "StringSimilarityEncoder" /\ \E X \in EncFrames : EncoderTransform(X)
DiscretiserConstruct == \E b \in BinsArgs : DiscretiserInit(b)
DiscretiserFitCall ==
    kind = "IncreasingWidthDiscretiser" /\ \E X \in DiscFrames(bins) : DiscretiserFit(X)
DiscretiserTransformCall ==
    kind = "IncreasingWidthDiscretiser" /\ \E X \in DiscFrames(bins) : DiscretiserTransform(X)

Next ==
    \/ EncoderConstruct
    \/ EncoderFitCall
    \/ EncoderTransformCall
    \/ DiscretiserConstruct
    \/ DiscretiserFitCall
    \/ DiscretiserTransformCall
    \/ Release

Spec == Init /\ [][Next]_vars

\* ================================================================ claims
Disc == kind = "IncreasingWidthDiscretiser"
Enc == kind = "StringSimilarityEncoder"
FitReturned == call.op = "fit" /\ call.raised = ""
TransformReturned == call.op = "transform" /\ call.raised = ""

\* C1: for bins = k >= 1, every boundary list fit stores has exactly k + 1
\* entries, the first negative infinity and the last positive infinity.
C1_LengthAndSentinels ==
    (Disc /\ bins.v >= 1) =>
        \A v \in DOMAIN binner_dict_ :
            /\ Len(binner_dict_[v]) = bins.v + 1
            /\ binner_dict_[v][1] = NegInf
            /\ binner_dict_[v][bins.v + 1] = PosInf

\* a fit with bins >= 2 on a column with min < max has returned
C1_Witness ==
    /\ Disc /\ FitReturned /\ bins.v >= 2
    /\ ColVar \in DOMAIN binner_dict_
    /\ RLess(SeriesMin(call.X.data[ColVar]), SeriesMax(call.X.data[ColVar]))

\* C2: for bins >= 1, every boundary list fit stores is strictly increasing.
C2_StrictlyIncreasing ==
    (Disc /\ bins.v >= 1) =>
        \A v \in DOMAIN binner_dict_ :
            \A i \in 1..(Len(binner_dict_[v]) - 1) :
                RLess(binner_dict_[v][i], binner_dict_[v][i + 1])

\* the column as the missing-value policy counts it
Normalised(col, hm) == IF hm = "impute" THEN fillna(col) ELSE col

\* the distinct values of the column after the missing-value policy
DistinctValues(col, hm) == Range(Normalised(col, hm)) \ {NaN}

\* top_categories is None or a count (an int >= 0)
TopIsCount == top_categories.ty = "NoneType" \/ (IsInt(top_categories) /\ top_categories.v >= 0)

FirstIndex(col, v) == CHOOSE i \in 1..Len(col) : col[i] = v /\ \A j \in 1..(i - 1) : col[j] # v

\* a ranks before b: a higher count, or the same count and met first
RanksBefore(col, a, b) ==
    \/ CountOf(col, a) > CountOf(col, b)
    \/ CountOf(col, a) = CountOf(col, b) /\ FirstIndex(col, a) < FirstIndex(col, b)

C5_ColumnCount ==
    (Enc /\ TransformReturned) =>
        Len(call.out.cols) =
            Len(call.X.cols) - Len(variables_)
            + SumSeq([i \in 1..Len(variables_) |-> Len(encoder_dict_[variables_[i]])])

\* C6: a fit call that raises leaves the learned state as it was: the
\* vocabularies of an earlier fit are kept, an unfitted encoder stays unfitted.
C6_FailedFitKeepsState ==
    [][(Enc /\ call'.op = "fit" /\ call'.raised # "") =>
           (encoder_dict_' = encoder_dict_ /\ fitted' = fitted)]_vars

\* C7: a successful fit leaves exactly what a fit on a new instance learns from
\* the same data (nothing of an earlier fit survives), no transform changes
\* the learned dictionaries, and transform called again on the same input
\* returns the same output.
C7_FreshFitStableTransform ==
    [][/\ (Enc /\ call'.op = "fit" /\ call'.raised = "") =>
              encoder_dict_' = EncoderDictAfterFit(EmptyDict, call'.X, top_categories,
                                                   handle_missing)
       /\ (Disc /\ call'.op = "fit" /\ call'.raised = "") =>
              binner_dict_' = BinnerDictAfterFit(EmptyDict, call'.X, bins)
       /\ call'.op # "fit" => (encoder_dict_' = encoder_dict_ /\ binner_dict_' = binner_dict_)
       /\ (/\ call.op = "transform" /\ call.raised = ""
           /\ call'.op = "transform" /\ call'.raised = ""
           /\ call'.X = call.X) => call'.out = call.out]_vars

\* a transform has returned similarity columns on a fitted encoder whose
\* vocabularies are those of its last fit
C7_Witness ==
    /\ Enc /\ TransformReturned
    /\ DOMAIN encoder_dict_ = {ColX}
    /\ Len(encoder_dict_[ColX]) >= 2
    /\ Len(call.out.cols) >= 2

\* C8: an invalid constructor argument raises at construction, so an instance
\* that exists has an integer bins, a top_categories that is None or an
\* integer, and a handle_missing among 'error', 'impute', 'ignore'.
C8_InvalidArgumentsRaise ==
    /\ Disc => IsInt(bins)
    /\ Enc => /\ top_categories.ty \in {"NoneType", "int"}
              /\ handle_missing \in {"error", "impute", "ignore"}

\* some cell of a categorical column of X is missing
MissingInCategorical(X) ==
    \E c \in Range(X.cols) :
        X.dtype[c] = "object" /\ \E r \in 1..Len(X.data[c]) : isna(X.data[c][r])

\* C9: with handle_missing='error', a fit or transform call whose own input
\* has a missing value in a selected variable raises, and a fit that raises
\* stores no vocabulary entry.
C9_ErrorPolicyRaises ==
    (Enc /\ handle_missing = "error") =>
        /\ (call.op \in {"fit", "transform"} /\ MissingInCategorical(call.X)) =>
               call.raised # ""
        /\ (call.op = "fit" /\ call.raised # "") => DOMAIN encoder_dict_ = {}

\* a transform has raised on a missing value although the fit before it
\* succeeded, that is, on data without missing values
C9_Witness ==
    /\ Enc /\ handle_missing = "error"
    /\ call.op = "transform" /\ call.raised = "ValueError"
    /\ MissingInCategorical(call.X)
    /\ ColX \in DOMAIN encoder_dict_ /\ encoder_dict_[ColX] # <<>>

\* C10: with handle_missing='ignore', in the transform output every
\* similarity column of variable V is missing in the rows where V is missing
\* and in no other row.
C10_IgnoreAllOrNothing ==
    (Enc /\ handle_missing = "ignore" /\ TransformReturned) =>
        \A k \in 1..Len(variables_) :
            LET v == variables_[k]
            IN  \A j \in 1..Len(encoder_dict_[v]) :
                    LET name == FeatureName(v, encoder_dict_[v][j])
                    IN  /\ name \in DOMAIN call.out.data
                        /\ \A r \in 1..NRows(call.X) :
                               isna(call.X.data[v][r]) <=> call.out.data[name][r] = ScoreNaN

\* a transform under 'ignore' has returned for an input with a missing and a
\* present value of x, and a vocabulary of two entries
C10_Witness ==
    /\ Enc /\ handle_missing = "ignore" /\ TransformReturned
    /\ Len(encoder_dict_[ColX]) >= 2
    /\ \E r \in 1..NRows(call.X) : isna(call.X.data[ColX][r])
    /\ \E r \in 1..NRows(call.X) : ~isna(call.X.data[ColX][r])

\* the name of the column of the imputed missing value of variable v
NanColumn(v) == v \o <<"_">> \o StrNan

\* C11: with handle_missing='impute', no similarity column of the transform
\* output holds a missing value, a row whose value of V is missing has score
\* 1.0 in column V_nan when the empty string is in V's vocabulary, and the
\* output has a column V_nan exactly when the empty string is in that vocabulary.
C11_ImputeScores ==
    (Enc /\ handle_missing = "impute" /\ TransformReturned) =>
        \A k \in 1..Len(variables_) :
            LET v == variables_[k]
                voc == encoder_dict_[v]
            IN  /\ \A j \in 1..Len(voc) :
                       /\ FeatureName(v, voc[j]) \in DOMAIN call.out.data
                       /\ \A r \in 1..NRows(call.X) :
                              call.out.data[FeatureName(v, voc[j])][r] # ScoreNaN
                /\ InSeq(voc, EmptyStr) =>
                       /\ NanColumn(v) \in DOMAIN call.out.data
                       /\ \A r \in 1..NRows(call.X) :
                              isna(call.X.data[v][r]) => call.out.data[NanColumn(v)][r] = One
                /\ InSeq(call.out.cols, NanColumn(v)) <=> InSeq(voc, EmptyStr)

\* the columns of the transform input that are not encoded
NonEncoded(X, variables) == SelectSeq(X.cols, LAMBDA c : ~InSeq(variables, c))

\* the names V_c, V_nan for the empty string, by variable and vocabulary order
ExpectedNames(variables, dict) ==
    ConcatAll([i \in 1..Len(variables) |->
        [j \in 1..Len(dict[variables[i]]) |->
            IF dict[variables[i]][j] = EmptyStr THEN NanColumn(variables[i])
            ELSE variables[i] \o <<"_">> \o dict[variables[i]][j]]])

\* C12: the transform output has the non-encoded input columns, in their
\* order and with their values, followed by the new columns by variable and
\* vocabulary order, named V_c (V_nan for the empty string), and no encoded
\* input column; get_feature_names_out gives the names of the output columns.
\* Stated of the vocabularies whose names differ from one another.
C12_OutputLayout ==
    (Enc /\ TransformReturned /\ NoDuplicates(ExpectedNames(variables_, encoder_dict_))) =>
        LET kept == NonEncoded(call.X, variables_)
        IN  /\ call.out.cols = kept \o ExpectedNames(variables_, encoder_dict_)
            /\ \A i \in 1..Len(variables_) : ~InSeq(call.out.cols, variables_[i])
            /\ \A i \in 1..Len(kept) : call.out.data[kept[i]] = call.X.data[kept[i]]
            /\ get_feature_names_out(feature_names_in_, variables_, encoder_dict_)
                   = call.out.cols

\* C13: a transform call on an instance on which no fit call has returned
\* without raising raises NotFittedError and leaves the learned state as it
\* was, also when an earlier fit call raised.
C13_TransformBeforeFit ==
    [][(call'.op = "transform" /\ ~fit_completed) =>
           (call'.raised = "NotFittedError" /\ learned' = learned)]_vars

\* the name is that of one new column only and of no input column
Unambiguous(name) ==
    /\ CountOf(_get_new_features_name(variables_, encoder_dict_), name) = 1
    /\ ~InSeq(call.X.cols, name)

\* C14: every score transform writes lies in [0, 1], is 1.0 exactly when the
\* observed value and the vocabulary entry are the same string, and is 0.0
\* when the two share no character. Stated of the columns whose name is
\* unambiguous, the others hold the scores of another entry.
C14_ScoreRange ==
    (Enc /\ TransformReturned) =>
        \A k \in 1..Len(variables_) :
            LET v == variables_[k]
                voc == encoder_dict_[v]
                col == Normalised(call.X.data[v], handle_missing)
            IN  \A j \in 1..Len(voc) : \A r \in 1..Len(col) :
                    (Unambiguous(FeatureName(v, voc[j])) /\ ~isna(col[r])) =>
                        LET s == call.out.data[FeatureName(v, voc[j])][r]
                        IN  /\ RLeq(Zero, s) /\ RLeq(s, One)
                            /\ s = One <=> col[r] = voc[j]
                            /\ (col[r] # voc[j] /\ Range(col[r]) \cap Range(voc[j]) = {})
                                   => s = Zero

\* C15: for bins >= 3 and a fit column with min < max, the finite boundaries
\* lie within [min, max] and each finite interval is (max - min) ** (1 / bins)
\* times as wide as the one before it, and wider.
C15_GeometricWidths ==
    (Disc /\ FitReturned /\ bins.v >= 3) =>
        \A v \in DOMAIN binner_dict_ :
            LET lo == SeriesMin(call.X.data[v])
                hi == SeriesMax(call.X.data[v])
                b == binner_dict_[v]
                width(i) == RSub(b[i + 1], b[i])
            IN  RLess(lo, hi) =>
                    /\ \A i \in 2..(Len(b) - 1) : RLeq(lo, b[i]) /\ RLeq(b[i], hi)
                    /\ \A i \in 2..(Len(b) - 3) :
                           /\ width(i + 1) = RMul(Root(RSub(hi, lo), bins.v), width(i))
                           /\ RLess(width(i), width(i + 1))

====
